---- MODULE Spec2Model ----
(***************************************************************************)
(* Incremental ingestion of the yearly SRI vehicle datasets                *)
(* (src/aws/artefactos): the decision engine decide_download, the per-year *)
(* driver main(), the state store (load_state, save_state, touch_checked)  *)
(* and the manifest accumulator.                                           *)
(*                                                                         *)
(* Python's Optional values are modelled as sequences of length 0 or 1:    *)
(* None is <<>> and a present value v is <<v>>.  A dictionary key that is  *)
(* absent is modelled as None, because the code reads records only with    *)
(* dict.get, which returns None for an absent key.                         *)
(***************************************************************************)
EXTENDS Integers, Sequences, FiniteSets, TLC

\* ---------------------------------------------------------------- bounds
MaxYear == 2
MaxRuns == 2
MaxClock == 1
NumContents == 2

\* ------------------------------------------------------- optional values
None == <<>>
Some(v) == <<v>>
Val(o) == o[1]

\* Python truthiness of an Optional[str]: None and "" are both falsy.
Truthy(o) == o # None /\ Val(o) # ""

\* s contains sub as a contiguous substring.
Contains(s, sub) ==
    \E i \in 1..(Len(s) - Len(sub) + 1) : SubSeq(s, i, i + Len(sub) - 1) = sub

\* --------------------------------------------------------------- domains
Years == 1..MaxYear
Contents == 1..NumContents

\* Freshness markers the decision engine is exercised on: the type is
\* str | None, so the empty string is one of the strings.
MarkerStrings == {"", "2021-05-01", "2021-06-01", "2021-07-01", "x"}
DecideMarkers == {None} \cup {Some(s) : s \in MarkerStrings}

\* Values of meta.get("fecha_actualizacion") seen by the driver.
MetaMarkers == {None, Some("2021-05-01"), Some("2021-06-01")}

\* ----------------------------------------------------------- state store
\* The year records of the persisted state.json.
VARIABLE persisted

\* ------------------------------------------------------- decision engine
\* Mutants of decide_download (plausible slips of main.py:66-79).
decide_download_force_last(force, last_seen_update, current_meta_update) ==
    IF last_seen_update = None /\ current_meta_update = None
      THEN <<TRUE, "sin_fecha_en_web_y_sin_estado">>
    ELSE IF last_seen_update = None
      THEN <<TRUE, "primer_registro_del_anio">>
    ELSE IF Truthy(current_meta_update) /\ current_meta_update # last_seen_update
      THEN <<TRUE, "actualizacion_detectada: " \o Val(last_seen_update)
                    \o " -> " \o Val(current_meta_update)>>
    ELSE IF force
      THEN <<TRUE, "--force">>
    ELSE <<FALSE, "sin_cambios">>

decide_download_one_reason(force, last_seen_update, current_meta_update) ==
    IF force
      THEN <<TRUE, "--force">>
    ELSE IF last_seen_update = None
      THEN <<TRUE, "primer_registro_del_anio">>
    ELSE IF Truthy(current_meta_update) /\ current_meta_update # last_seen_update
      THEN <<TRUE, "actualizacion_detectada: " \o Val(last_seen_update)
                    \o " -> " \o Val(current_meta_update)>>
    ELSE <<FALSE, "sin_cambios">>

decide_download_always(force, last_seen_update, current_meta_update) ==
    IF force
      THEN <<TRUE, "--force">>
    ELSE IF last_seen_update = None /\ current_meta_update = None
      THEN <<TRUE, "sin_fecha_en_web_y_sin_estado">>
    ELSE IF last_seen_update = None
      THEN <<TRUE, "primer_registro_del_anio">>
    ELSE IF Truthy(current_meta_update)
      THEN <<TRUE, "actualizacion_detectada: " \o Val(last_seen_update)
                    \o " -> " \o Val(current_meta_update)>>
    ELSE <<FALSE, "sin_cambios">>

\* Mutant of decide_download: the last-seen marker of the first year is read
\* from the persisted state instead of the argument.
decide_download_reads_state(force, last_seen_update, current_meta_update) ==
    LET seen == IF 1 \in DOMAIN persisted
                  THEN persisted[1].last_metadata_update
                  ELSE last_seen_update
    IN  IF force THEN <<TRUE, "--force">>
        ELSE IF seen = None /\ current_meta_update = None
          THEN <<TRUE, "sin_fecha_en_web_y_sin_estado">>
        ELSE IF seen = None
          THEN <<TRUE, "primer_registro_del_anio">>
        ELSE IF Truthy(current_meta_update) /\ current_meta_update # seen
          THEN <<TRUE, "actualizacion_detectada: " \o Val(seen)
                        \o " -> " \o Val(current_meta_update)>>
        ELSE <<FALSE, "sin_cambios">>

\* decide_download (main.py:47-79): (need_download, reason).
decide_download(force, last_seen_update, current_meta_update) ==
    IF force
      THEN <<TRUE, "--force">>
    ELSE IF last_seen_update = None /\ current_meta_update = None
      THEN <<TRUE, "sin_fecha_en_web_y_sin_estado">>
    ELSE IF last_seen_update = None
      THEN <<TRUE, "primer_registro_del_anio">>
    ELSE IF Truthy(current_meta_update) /\ current_meta_update # last_seen_update
      THEN <<TRUE, "actualizacion_detectada: " \o Val(last_seen_update)
                    \o " -> " \o Val(current_meta_update)>>
    ELSE <<FALSE, "sin_cambios">>

\* ----------------------------------------------------------- state store
\* Status strings written by main() (main.py:142,155,164,169,190,230).
ExitStatuses ==
    {"meta_only_checked", "no_changes", "404", "error_download", "200_same", "200_new"}

\* Record created by touch_checked for a year without an entry
\* (state_manager.py:122-128).
DefaultYearState ==
    [last_metadata_update |-> None, last_status |-> "unknown",
     last_checked_ts |-> None, last_file_path |-> None, last_sha256 |-> None]

\* The dict {} of state.get(str(year), {}): every key absent (main.py:139,148,227).
\* "absent" stands for the missing last_status key, which no code path reads.
EmptyYearState ==
    [last_metadata_update |-> None, last_status |-> "absent",
     last_checked_ts |-> None, last_file_path |-> None, last_sha256 |-> None]

\* state.get(str(year), {}).
StateGet(st, y) == IF y \in DOMAIN st THEN st[y] ELSE EmptyYearState

\* state[str(year)] = yst.
StatePut(st, y, yst) == (y :> yst) @@ st

\* Mutant of touch_checked: last_checked_ts is left as it was.
touch_checked_keeps_ts(st, y, last_metadata_update, status, last_file_path, last_sha256, now) ==
    LET yst == IF y \in DOMAIN st THEN st[y] ELSE DefaultYearState
    IN  StatePut(st, y,
          [yst EXCEPT !.last_metadata_update = last_metadata_update,
                      !.last_status = status,
                      !.last_file_path = IF last_file_path # None THEN last_file_path ELSE @,
                      !.last_sha256 = IF last_sha256 # None THEN last_sha256 ELSE @])

\* Mutant of touch_checked: last_file_path and last_sha256 are assigned
\* whatever was passed, None included.
touch_checked_overwrites(st, y, last_metadata_update, status, last_file_path, last_sha256, now) ==
    LET yst == IF y \in DOMAIN st THEN st[y] ELSE DefaultYearState
    IN  StatePut(st, y,
          [yst EXCEPT !.last_metadata_update = last_metadata_update,
                      !.last_status = status,
                      !.last_checked_ts = Some(now),
                      !.last_file_path = last_file_path,
                      !.last_sha256 = last_sha256])

\* Mutant of touch_checked: the record is written under the following year.
touch_checked_wrong_key(st, y, last_metadata_update, status, last_file_path, last_sha256, now) ==
    LET yst == IF y \in DOMAIN st THEN st[y] ELSE DefaultYearState
    IN  StatePut(st, y + 1,
          [yst EXCEPT !.last_metadata_update = last_metadata_update,
                      !.last_status = status,
                      !.last_checked_ts = Some(now),
                      !.last_file_path = IF last_file_path # None THEN last_file_path ELSE @,
                      !.last_sha256 = IF last_sha256 # None THEN last_sha256 ELSE @])

\* touch_checked (state_manager.py:98-141); now is the reading of
\* datetime.now() at line 133.  Paths and digests are never empty strings, so
\* the truthiness tests of lines 135 and 137 are tests for None.
touch_checked(st, y, last_metadata_update, status, last_file_path, last_sha256, now) ==
    LET yst == IF y \in DOMAIN st THEN st[y] ELSE DefaultYearState
    IN  StatePut(st, y,
          [yst EXCEPT !.last_metadata_update = last_metadata_update,
                      !.last_status = status,
                      !.last_checked_ts = Some(now),
                      !.last_file_path = IF last_file_path # None THEN last_file_path ELSE @,
                      !.last_sha256 = IF last_sha256 # None THEN last_sha256 ELSE @])

\* ------------------------------------------------------- hashing, naming
\* sha256_bytes (utils.py:32-47): a digest determined by the content, distinct
\* contents having distinct digests.
sha256_bytes(b) == <<"sha256", b>>

\* Location of the artifact of a year written by the run stamped ts: the file
\* name carries year and run_ts (main.py:195-202, s3_paths.py:9-12).
ArtifactPath(y, ts) == <<y, ts>>

\* existing_year_hashes (utils.py:115-139): digests of the artifacts stored
\* under the directory of year y.
existing_year_hashes(arts, y) ==
    {sha256_bytes(arts[p]) : p \in {q \in DOMAIN arts : q[1] = y}}

\* ------------------------------------------------------------- variables
VARIABLES
    USE_S3,          \* storage backend and deduplication policy (config.py:23)
    state_obj,       \* what the state location holds: "absent", "json", "garbage"
    artifacts,       \* stored CSV artifacts: path -> content
    manifests,       \* written manifests: run_ts -> sequence of entries
    clock,           \* wall clock
    runs,            \* invocations of main() started so far
    pc,              \* position of the running invocation
    start, end, force, metadata_only,   \* arguments of main()
    year,            \* loop variable
    state,           \* in-memory state dict
    run_ts,          \* timestamp of the run
    entries,         \* mw.entries
    total_nuevos,    \* new-file counter
    meta_update_iso, \* marker fetched for the current year
    meta_failed,     \* the metadata fetch of the current year raised
    need_download, reason,              \* result of decide_download
    content,         \* bytes fetched for the current year
    fetch_outcome,   \* how download_csv ended for the current year
    fetched,         \* years for which download_csv was called in this run
    stored,          \* names under which this run has stored an artifact
    manifest_path,   \* value returned by mw.write()
    touched,         \* years passed to touch_checked in this run
    saved,           \* years whose touched record save_state has written in this run
    abort_cause,     \* call whose exception ended the run
    status_code,     \* statusCode returned by main()
    d_pc, d_force, d_last, d_cur, d_out, \* a call of decide_download on its own
    d_out2,          \* result of a second call with the same arguments
    inv_pc,          \* concurrent invocations of main(): position of each
    inv_year,        \* concurrent invocations: loop variable of each
    inv_state,       \* concurrent invocations: in-memory state dict of each
    last_saver       \* concurrent invocations: whose save_state returned last

persistentVars == <<USE_S3, state_obj, persisted, artifacts, manifests, clock, runs>>
argVars == <<start, end, force, metadata_only>>
iterVars == <<meta_update_iso, meta_failed, need_download, reason, content, fetch_outcome>>
runVars == <<pc, year, state, run_ts, entries, total_nuevos, touched, saved,
             abort_cause, status_code, fetched, stored, manifest_path>>
decideVars == <<d_pc, d_force, d_last, d_cur, d_out, d_out2>>
invVars == <<inv_pc, inv_year, inv_state, last_saver>>
vars == <<persistentVars, argVars, iterVars, runVars, decideVars, invVars>>

\* Two invocations of main() that overlap in time.
Invocations == {"A", "B"}

NoContent == 0
Running == pc \notin {"idle", "done", "aborted", "killed"}

\* Values before the first statement of an iteration.
IterReset ==
    /\ meta_update_iso' = None
    /\ meta_failed' = FALSE
    /\ need_download' = FALSE
    /\ reason' = ""
    /\ content' = NoContent
    /\ fetch_outcome' = "none"

\* Readings of the clock at the start of a run.  Time is counted from the start
\* of the first run; a later run starts in the same second as the run before
\* it or later.  Within a run the readings of datetime.now() are those of the
\* run's start: only the order of readings matters, and it is kept.
ClockReadings == IF runs = 0 THEN {clock} ELSE {t \in {clock, clock + 1} : t <= MaxClock}

\* ------------------------------------------------------------------ Init
Init ==
    /\ USE_S3 = TRUE
    /\ state_obj \in {"absent", "garbage"}
    /\ persisted = <<>>
    /\ artifacts = <<>>
    /\ manifests = <<>>
    /\ clock = 0
    /\ runs = 0
    /\ pc = "idle"
    /\ start = 1 /\ end = 0 /\ force = FALSE /\ metadata_only = FALSE
    /\ year = 1
    /\ state = <<>>
    /\ run_ts = 0
    /\ entries = <<>>
    /\ total_nuevos = 0
    /\ meta_update_iso = None /\ meta_failed = FALSE
    /\ need_download = FALSE /\ reason = ""
    /\ content = NoContent
    /\ fetch_outcome = "none"
    /\ fetched = {}
    /\ stored = {}
    /\ manifest_path = None
    /\ touched = {} /\ saved = {}
    /\ abort_cause = "none"
    /\ status_code = 0
    /\ d_pc = "off" /\ d_force = FALSE /\ d_last = None /\ d_cur = None
    /\ d_out = <<FALSE, "">>
    /\ d_out2 = <<FALSE, "">>
    /\ inv_pc = [i \in Invocations |-> "off"]
    /\ inv_year = [i \in Invocations |-> 1]
    /\ inv_state = [i \in Invocations |-> <<>>]
    /\ last_saver = "none"

\* --------------------------------------------------------- start of main
\* load_state (state_manager.py:21-60) returns a dict: the persisted records,
\* or {} when the object is absent (NoSuchKey, no local file) or, in local
\* mode, does not parse.
LoadReturns == state_obj \in {"absent", "json"} \/ ~USE_S3

\* main.py:110-121 and the first evaluation of range(start, end + 1).
StartRun(s, e, f, m) ==
    /\ pc \in {"idle", "done", "aborted", "killed"}
    /\ runs < MaxRuns
    /\ LoadReturns
    /\ runs' = runs + 1
    /\ start' = s /\ end' = e /\ force' = f /\ metadata_only' = m
    /\ state' = persisted
    /\ \E t \in ClockReadings : clock' = t /\ run_ts' = t
    /\ entries' = <<>>
    /\ total_nuevos' = 0
    /\ year' = s
    /\ touched' = {} /\ saved' = {}
    /\ fetched' = {}
    /\ stored' = {}
    /\ manifest_path' = None
    /\ abort_cause' = "none"
    /\ status_code' = 0
    /\ pc' = "loop"
    /\ IterReset
    /\ UNCHANGED <<USE_S3, state_obj, persisted, artifacts, manifests, decideVars, invVars>>

\* load_state raises in S3 mode: a ClientError other than NoSuchKey/NoSuchBucket
\* is re-raised (state_manager.py:47-48) and a body that does not parse makes
\* json.loads raise (line 41); main() does not catch either (main.py:116).
LoadFails(s, e, f, m) ==
    /\ pc \in {"idle", "done", "aborted", "killed"}
    /\ runs < MaxRuns
    /\ USE_S3
    /\ runs' = runs + 1
    /\ start' = s /\ end' = e /\ force' = f /\ metadata_only' = m
    /\ state' = <<>>
    /\ entries' = <<>>
    /\ total_nuevos' = 0
    /\ year' = s
    /\ touched' = {} /\ saved' = {}
    /\ fetched' = {}
    /\ stored' = {}
    /\ manifest_path' = None
    /\ abort_cause' = "load"
    /\ status_code' = 0
    /\ pc' = "aborted"
    /\ IterReset
    /\ UNCHANGED <<USE_S3, state_obj, persisted, artifacts, manifests, clock, run_ts,
                   decideVars, invVars>>

\* ------------------------------------------------------ one year of main
\* main.py:128-130: the metadata provider returns a record.
FetchMetaOk(m) ==
    /\ pc = "loop" /\ year <= end
    /\ meta_update_iso' = m
    /\ meta_failed' = FALSE
    /\ pc' = "fetched"
    /\ UNCHANGED <<persistentVars, argVars, need_download, reason, content,
                   fetch_outcome, year, state, run_ts, entries, total_nuevos, touched,
                   saved, abort_cause, status_code, fetched, stored, manifest_path,
                   decideVars, invVars>>

\* main.py:131-134: the metadata provider raises (or returns None, on which
\* meta.get raises inside the same try).
FetchMetaFails ==
    /\ pc = "loop" /\ year <= end
    /\ meta_update_iso' = None
    /\ meta_failed' = TRUE
    /\ pc' = "fetched"
    /\ UNCHANGED <<persistentVars, argVars, need_download, reason, content,
                   fetch_outcome, year, state, run_ts, entries, total_nuevos, touched,
                   saved, abort_cause, status_code, fetched, stored, manifest_path,
                   decideVars, invVars>>

\* Mutant of MetadataOnlyExit: the marker recorded is the one already stored.
MetadataOnlyExit_no_marker ==
    /\ pc = "fetched" /\ metadata_only
    /\ state' = touch_checked(state, year, StateGet(state, year).last_metadata_update,
                              "meta_only_checked", None, None, clock)
    /\ touched' = touched \cup {year}
    /\ pc' = "save"
    /\ UNCHANGED <<persistentVars, argVars, iterVars, year, run_ts, entries,
                   total_nuevos, saved, abort_cause, status_code, fetched, stored,
                   manifest_path, decideVars, invVars>>

\* main.py:138-142: metadata-only branch up to the call of save_state.
MetadataOnlyExit ==
    /\ pc = "fetched" /\ metadata_only
    /\ state' = touch_checked(
           StatePut(state, year,
               [StateGet(state, year) EXCEPT !.last_metadata_update = meta_update_iso]),
           year, meta_update_iso, "meta_only_checked", None, None, clock)
    /\ touched' = touched \cup {year}
    /\ pc' = "save"
    /\ UNCHANGED <<persistentVars, argVars, iterVars, year, run_ts, entries,
                   total_nuevos, saved, abort_cause, status_code, fetched, stored,
                   manifest_path, decideVars, invVars>>

\* main.py:148-151.
Decide ==
    /\ pc = "fetched" /\ ~metadata_only
    /\ LET out == decide_download(force, StateGet(state, year).last_metadata_update,
                                  meta_update_iso)
       IN  need_download' = out[1] /\ reason' = out[2]
    /\ pc' = "decided"
    /\ UNCHANGED <<persistentVars, argVars, meta_update_iso, meta_failed, content,
                   fetch_outcome, year, state, run_ts, entries, total_nuevos, touched,
                   saved, abort_cause, status_code, fetched, stored, manifest_path,
                   decideVars, invVars>>

\* An exit branch that only records a status: touch_checked(state, year,
\* meta_update_iso, status=...) followed by the jump to save_state.  The caller
\* says what became of the call of download_csv.
TouchExit(status) ==
    /\ state' = touch_checked(state, year, meta_update_iso, status, None, None, clock)
    /\ touched' = touched \cup {year}
    /\ pc' = "save"
    /\ UNCHANGED <<persistentVars, argVars, meta_update_iso, meta_failed, need_download,
                   reason, content, year, run_ts, entries, total_nuevos, saved,
                   abort_cause, status_code, manifest_path, decideVars, invVars>>

\* Mutant of SkipExit: the branch records the status and continues with the
\* next year without calling save_state.
SkipExit_no_save ==
    /\ pc = "decided" /\ ~need_download
    /\ state' = touch_checked(state, year, meta_update_iso, "no_changes", None, None, clock)
    /\ touched' = touched \cup {year}
    /\ year' = year + 1
    /\ pc' = "loop"
    /\ IterReset
    /\ UNCHANGED <<persistentVars, argVars, run_ts, entries, total_nuevos, saved,
                   abort_cause, status_code, fetched, stored, manifest_path, decideVars, invVars>>

\* main.py:154-155.
SkipExit ==
    /\ pc = "decided" /\ ~need_download
    /\ TouchExit("no_changes")
    /\ UNCHANGED <<fetch_outcome, fetched, stored>>

\* main.py:160-161: download_csv returns the content (downloader.py:41-47).
DownloadOk(c) ==
    /\ pc = "decided" /\ need_download
    /\ content' = c
    /\ fetch_outcome' = "ok"
    /\ fetched' = fetched \cup {year}
    /\ UNCHANGED stored
    /\ pc' = "downloaded"
    /\ UNCHANGED <<persistentVars, argVars, meta_update_iso, meta_failed, need_download,
                   reason, year, state, run_ts, entries, total_nuevos, touched, saved,
                   abort_cause, status_code, manifest_path, decideVars, invVars>>

\* Mutant of NotFoundExit: the fetch is tried again instead of being recorded.
NotFoundExit_retries ==
    /\ pc = "decided" /\ need_download
    /\ fetch_outcome' = "not_found"
    /\ fetched' = fetched \cup {year}
    /\ UNCHANGED stored
    /\ UNCHANGED <<persistentVars, argVars, meta_update_iso, meta_failed, need_download,
                   reason, content, pc, year, state, run_ts, entries, total_nuevos,
                   touched, saved, abort_cause, status_code, manifest_path, decideVars,
                   invVars>>

\* Mutant of NotFoundExit: FileNotFoundError is recorded as any other failure.
NotFoundExit_as_error ==
    /\ pc = "decided" /\ need_download
    /\ TouchExit("error_download")
    /\ fetch_outcome' = "not_found"
    /\ fetched' = fetched \cup {year}
    /\ UNCHANGED stored

\* main.py:162-164: download_csv raises FileNotFoundError (downloader.py:43-44).
NotFoundExit ==
    /\ pc = "decided" /\ need_download
    /\ TouchExit("404")
    /\ fetch_outcome' = "not_found"
    /\ fetched' = fetched \cup {year}
    /\ UNCHANGED stored

\* main.py:167-169: download_csv raises anything else.
ContentErrorExit ==
    /\ pc = "decided" /\ need_download
    /\ TouchExit("error_download")
    /\ fetch_outcome' = "error"
    /\ fetched' = fetched \cup {year}
    /\ UNCHANGED stored

\* Mutant of is_duplicate: a forced run does not look for duplicates.
is_duplicate_unless_forced ==
    LET digest == sha256_bytes(content)
    IN  /\ ~force
        /\ IF USE_S3
             THEN LET last_sha == StateGet(state, year).last_sha256
                  IN  last_sha # None /\ last_sha = Some(digest)
             ELSE digest \in existing_year_hashes(artifacts, year)

\* Mutant of is_duplicate: no content is taken for a duplicate.
is_duplicate_never == FALSE

\* Mutant of is_duplicate: both policies compare with the recorded digest.
is_duplicate_recorded_only ==
    LET digest == sha256_bytes(content)
        last_sha == StateGet(state, year).last_sha256
    IN  last_sha # None /\ last_sha = Some(digest)

\* main.py:174-185.
is_duplicate ==
    LET digest == sha256_bytes(content)
    IN  IF USE_S3
          THEN LET last_sha == StateGet(state, year).last_sha256
               IN  last_sha # None /\ last_sha = Some(digest)
          ELSE digest \in existing_year_hashes(artifacts, year)

\* main.py:188-190.
DuplicateExit ==
    /\ pc = "downloaded" /\ is_duplicate
    /\ TouchExit("200_same")
    /\ UNCHANGED <<fetch_outcome, fetched, stored>>

\* Mutant of NewDownload: the record gets the digest but not the path.
NewDownload_no_path ==
    /\ pc = "downloaded" /\ ~is_duplicate
    /\ LET digest == sha256_bytes(content)
           dest == ArtifactPath(year, run_ts)
       IN  /\ artifacts' = (dest :> content) @@ artifacts
           /\ stored' = stored \cup {dest}
           /\ entries' = Append(entries,
                  [year |-> year, sha256 |-> digest, local_path |-> dest,
                   fecha_actualizacion |-> meta_update_iso])
           /\ total_nuevos' = total_nuevos + 1
           /\ state' = touch_checked(state, year, meta_update_iso, "200_new",
                                     None, Some(digest), clock)
    /\ touched' = touched \cup {year}
    /\ pc' = "save"
    /\ UNCHANGED <<USE_S3, state_obj, persisted, manifests, clock, runs, argVars,
                   iterVars, year, run_ts, saved, abort_cause, status_code, fetched,
                   manifest_path, decideVars, invVars>>

\* Mutant of NewDownload: the counter is not incremented.
NewDownload_no_count ==
    /\ pc = "downloaded" /\ ~is_duplicate
    /\ LET digest == sha256_bytes(content)
           dest == ArtifactPath(year, run_ts)
       IN  /\ artifacts' = (dest :> content) @@ artifacts
           /\ stored' = stored \cup {dest}
           /\ entries' = Append(entries,
                  [year |-> year, sha256 |-> digest, local_path |-> dest,
                   fecha_actualizacion |-> meta_update_iso])
           /\ state' = touch_checked(state, year, meta_update_iso, "200_new",
                                     Some(dest), Some(digest), clock)
    /\ touched' = touched \cup {year}
    /\ pc' = "save"
    /\ UNCHANGED <<USE_S3, state_obj, persisted, manifests, clock, runs, argVars,
                   iterVars, year, run_ts, total_nuevos, saved, abort_cause,
                   status_code, fetched, manifest_path, decideVars, invVars>>

\* Mutant of NewDownload: mw.add is not called.
NewDownload_no_entry ==
    /\ pc = "downloaded" /\ ~is_duplicate
    /\ LET digest == sha256_bytes(content)
           dest == ArtifactPath(year, run_ts)
       IN  /\ artifacts' = (dest :> content) @@ artifacts
           /\ stored' = stored \cup {dest}
           /\ total_nuevos' = total_nuevos + 1
           /\ state' = touch_checked(state, year, meta_update_iso, "200_new",
                                     Some(dest), Some(digest), clock)
    /\ touched' = touched \cup {year}
    /\ pc' = "save"
    /\ UNCHANGED <<USE_S3, state_obj, persisted, manifests, clock, runs, argVars,
                   iterVars, year, run_ts, entries, saved, abort_cause, status_code,
                   fetched, manifest_path, decideVars, invVars>>

\* main.py:194-233: the artifact is written, the manifest entry appended, the
\* counter incremented and the year record updated, up to the call of save_state.
NewDownload ==
    /\ pc = "downloaded" /\ ~is_duplicate
    /\ LET digest == sha256_bytes(content)
           dest == ArtifactPath(year, run_ts)
           st1 == IF year \in DOMAIN state
                    THEN StatePut(state, year,
                           [state[year] EXCEPT !.last_metadata_update = meta_update_iso,
                                               !.last_sha256 = Some(digest),
                                               !.last_status = "200_new",
                                               !.last_file_path = Some(dest)])
                    ELSE state
       IN  /\ artifacts' = (dest :> content) @@ artifacts
           /\ stored' = stored \cup {dest}
           /\ entries' = Append(entries,
                  [year |-> year, sha256 |-> digest, local_path |-> dest,
                   fecha_actualizacion |-> meta_update_iso])
           /\ total_nuevos' = total_nuevos + 1
           /\ state' = touch_checked(st1, year, meta_update_iso, "200_new",
                                     Some(dest), Some(digest), clock)
    /\ touched' = touched \cup {year}
    /\ pc' = "save"
    /\ UNCHANGED <<USE_S3, state_obj, persisted, manifests, clock, runs, argVars,
                   iterVars, year, run_ts, saved, abort_cause, status_code, fetched,
                   manifest_path, decideVars, invVars>>

\* The process ends without main() returning: its memory (the state dict, the
\* manifest accumulator, the counter and the locals) is gone.
ProcessEnds ==
    /\ state' = <<>>
    /\ entries' = <<>>
    /\ total_nuevos' = 0
    /\ manifest_path' = None
    /\ IterReset
    /\ UNCHANGED <<persistentVars, argVars, year, run_ts, touched, saved, status_code,
                   fetched, stored, decideVars, invVars>>

\* An exception that main() does not catch ends the invocation.
Abort(cause) ==
    /\ pc' = "aborted"
    /\ abort_cause' = cause
    /\ ProcessEnds

\* main.py:197-202: put_object or write_bytes raises (downloader.py:65-67,88).
StoreFails ==
    /\ pc = "downloaded" /\ ~is_duplicate
    /\ Abort("store")

\* save_state (state_manager.py:63-95) followed by the next value of the loop
\* variable (main.py:124).
SaveState ==
    /\ pc = "save"
    /\ persisted' = state
    /\ state_obj' = "json"
    /\ saved' = saved \cup {year}
    /\ year' = year + 1
    /\ pc' = "loop"
    /\ IterReset
    /\ UNCHANGED <<USE_S3, artifacts, manifests, clock, runs, argVars, state, run_ts,
                   entries, total_nuevos, touched, abort_cause, status_code, fetched, stored,
                   manifest_path, decideVars, invVars>>

\* save_state raises (put_object, mkdir or write_text); no caller catches it.
SaveFails ==
    /\ pc = "save"
    /\ Abort("save")

\* ------------------------------------------------------------ end of main
\* Name of the manifest of a run (storage/s3_paths.py:18-21, manifest.py:94-96):
\* it is made of the run's timestamp alone.
s3_key_manifest(ts) == <<"manifest", ts>>

\* Mutant of WriteManifest: only the last entry is serialized.
WriteManifest_last_only ==
    /\ pc = "loop" /\ year > end
    /\ manifests' = IF entries = <<>> THEN manifests
                    ELSE (run_ts :> <<entries[Len(entries)]>>) @@ manifests
    /\ manifest_path' = IF entries = <<>> THEN None ELSE Some(s3_key_manifest(run_ts))
    /\ pc' = "trigger"
    /\ UNCHANGED <<USE_S3, state_obj, persisted, artifacts, clock, runs, argVars,
                   iterVars, year, state, run_ts, entries, total_nuevos, touched, saved,
                   abort_cause, status_code, fetched, stored, decideVars, invVars>>

\* Mutant of WriteManifest: an empty entry list is written too.
WriteManifest_always ==
    /\ pc = "loop" /\ year > end
    /\ manifests' = (run_ts :> entries) @@ manifests
    /\ manifest_path' = Some(s3_key_manifest(run_ts))
    /\ pc' = "trigger"
    /\ UNCHANGED <<USE_S3, state_obj, persisted, artifacts, clock, runs, argVars,
                   iterVars, year, state, run_ts, entries, total_nuevos, touched, saved,
                   abort_cause, status_code, fetched, stored, decideVars, invVars>>

\* ManifestWriter.write (manifest.py:73-102), called at main.py:237: nothing is
\* written for an empty entry list and None is returned; otherwise the entries
\* go to the object named by run_ts and its key is returned.
WriteManifest ==
    /\ pc = "loop" /\ year > end
    /\ manifests' = IF entries = <<>> THEN manifests ELSE (run_ts :> entries) @@ manifests
    /\ manifest_path' = IF entries = <<>> THEN None ELSE Some(s3_key_manifest(run_ts))
    /\ pc' = "trigger"
    /\ UNCHANGED <<USE_S3, state_obj, persisted, artifacts, clock, runs, argVars,
                   iterVars, year, state, run_ts, entries, total_nuevos, touched, saved,
                   abort_cause, status_code, fetched, stored, decideVars, invVars>>

\* The write of the manifest raises (manifest.py:87-92,97-100).
WriteManifestFails ==
    /\ pc = "loop" /\ year > end
    /\ entries # <<>>
    /\ Abort("manifest")

\* main.py:246-266: trigger_databricks_job returns (code 200) or raises (500).
Trigger(code) ==
    /\ pc = "trigger"
    /\ status_code' = code
    /\ pc' = "done"
    /\ UNCHANGED <<persistentVars, argVars, iterVars, year, state, run_ts, entries,
                   total_nuevos, touched, saved, abort_cause, fetched, stored, manifest_path,
                   decideVars, invVars>>

\* The process is killed from outside at any point of a run.
Kill ==
    /\ Running
    /\ pc' = "killed"
    /\ abort_cause' = "none"
    /\ ProcessEnds

\* Arguments of main(): an inclusive range, possibly empty, and the two flags.
RunArgs ==
    {a \in Years \X (0..MaxYear) \X BOOLEAN \X BOOLEAN : a[2] >= a[1] - 1}

Next ==
    \/ \E a \in RunArgs : StartRun(a[1], a[2], a[3], a[4])
    \/ \E a \in RunArgs : LoadFails(a[1], a[2], a[3], a[4])
    \/ \E m \in MetaMarkers : FetchMetaOk(m)
    \/ FetchMetaFails
    \/ MetadataOnlyExit
    \/ Decide
    \/ SkipExit
    \/ \E c \in Contents : DownloadOk(c)
    \/ NotFoundExit
    \/ ContentErrorExit
    \/ DuplicateExit
    \/ NewDownload
    \/ StoreFails
    \/ SaveState
    \/ SaveFails
    \/ WriteManifest
    \/ WriteManifestFails
    \/ \E code \in {200, 500} : Trigger(code)
    \/ Kill

Spec == Init /\ [][Next]_vars

\* ------------------------------------------------------- either backend
\* USE_S3 is a constant of config.py; the local backend and its deduplication
\* policy are reached by setting it to False.  Without an S3 object the state
\* file is absent or does not parse.
InitAnyBackend ==
    /\ USE_S3 \in BOOLEAN
    /\ state_obj \in {"absent", "garbage"}
    /\ persisted = <<>>
    /\ artifacts = <<>>
    /\ manifests = <<>>
    /\ clock = 0
    /\ runs = 0
    /\ pc = "idle"
    /\ start = 1 /\ end = 0 /\ force = FALSE /\ metadata_only = FALSE
    /\ year = 1
    /\ state = <<>>
    /\ run_ts = 0
    /\ entries = <<>>
    /\ total_nuevos = 0
    /\ meta_update_iso = None /\ meta_failed = FALSE
    /\ need_download = FALSE /\ reason = ""
    /\ content = NoContent
    /\ fetch_outcome = "none"
    /\ fetched = {}
    /\ stored = {}
    /\ manifest_path = None
    /\ touched = {} /\ saved = {}
    /\ abort_cause = "none"
    /\ status_code = 0
    /\ d_pc = "off" /\ d_force = FALSE /\ d_last = None /\ d_cur = None
    /\ d_out = <<FALSE, "">>
    /\ d_out2 = <<FALSE, "">>
    /\ inv_pc = [i \in Invocations |-> "off"]
    /\ inv_year = [i \in Invocations |-> 1]
    /\ inv_state = [i \in Invocations |-> <<>>]
    /\ last_saver = "none"

SpecAnyBackend == InitAnyBackend /\ [][Next]_vars

\* ------------------------------------------------ runs without a failure
\* Runs in which every call of the storage returns and which are not killed:
\* every iteration that begins is completed.
NextCompleted ==
    \/ \E a \in RunArgs : StartRun(a[1], a[2], a[3], a[4])
    \/ \E m \in MetaMarkers : FetchMetaOk(m)
    \/ FetchMetaFails
    \/ MetadataOnlyExit
    \/ Decide
    \/ SkipExit
    \/ \E c \in Contents : DownloadOk(c)
    \/ NotFoundExit
    \/ ContentErrorExit
    \/ DuplicateExit
    \/ NewDownload
    \/ SaveState
    \/ WriteManifest
    \/ \E code \in {200, 500} : Trigger(code)

SpecCompleted == InitAnyBackend /\ [][NextCompleted]_vars

\* ------------------------------------------------ concurrent invocations
\* Two invocations of main(force=False, metadata_only=False) overlap against
\* one state location and one artifact store.  Each loads the state, then for
\* every year from its start year runs the iteration up to the call of
\* save_state, and saves.  What follows the loop (manifest, trigger) does not
\* touch the state location.
InitConcurrent ==
    /\ USE_S3 = TRUE
    /\ state_obj = "absent"
    /\ persisted = <<>>
    /\ artifacts = <<>>
    /\ manifests = <<>>
    /\ clock = 0
    /\ runs = 0
    /\ pc = "idle"
    /\ start = 1 /\ end = 0 /\ force = FALSE /\ metadata_only = FALSE
    /\ year = 1
    /\ state = <<>>
    /\ run_ts = 0
    /\ entries = <<>>
    /\ total_nuevos = 0
    /\ meta_update_iso = None /\ meta_failed = FALSE
    /\ need_download = FALSE /\ reason = ""
    /\ content = NoContent
    /\ fetch_outcome = "none"
    /\ fetched = {}
    /\ stored = {}
    /\ manifest_path = None
    /\ touched = {} /\ saved = {}
    /\ abort_cause = "none"
    /\ status_code = 0
    /\ d_pc = "off" /\ d_force = FALSE /\ d_last = None /\ d_cur = None
    /\ d_out = <<FALSE, "">>
    /\ d_out2 = <<FALSE, "">>
    /\ inv_pc = [i \in Invocations |-> "idle"]
    /\ inv_year = [i \in Invocations |-> 1]
    /\ inv_state = [i \in Invocations |-> <<>>]
    /\ last_saver = "none"

\* main.py:116-124 of invocation i: load_state returns what is persisted now.
InvLoad(i, s) ==
    /\ inv_pc[i] = "idle"
    /\ inv_state' = [inv_state EXCEPT ![i] = persisted]
    /\ inv_year' = [inv_year EXCEPT ![i] = s]
    /\ inv_pc' = [inv_pc EXCEPT ![i] = "loop"]
    /\ UNCHANGED <<persistentVars, argVars, iterVars, runVars, decideVars, last_saver>>

\* Status an iteration ends with (main.py:148-233), given the decision, the
\* outcome of download_csv and the duplicate test.
IterationStatus(need, outcome, dup) ==
    IF ~need THEN "no_changes"
    ELSE IF outcome = "not_found" THEN "404"
    ELSE IF outcome = "error" THEN "error_download"
    ELSE IF dup THEN "200_same"
    ELSE "200_new"

\* main.py:128-233 of invocation i: one iteration up to the call of save_state.
InvIterate(i, m, outcome, c) ==
    /\ inv_pc[i] = "loop" /\ inv_year[i] <= MaxYear
    /\ LET st == inv_state[i]
           y == inv_year[i]
           digest == sha256_bytes(c)
           dest == ArtifactPath(y, clock)
           need == decide_download(FALSE, StateGet(st, y).last_metadata_update, m)[1]
           dup == StateGet(st, y).last_sha256 = Some(digest)
           status == IterationStatus(need, outcome, dup)
       IN  /\ outcome = "none" <=> ~need
           /\ IF status = "200_new"
                THEN /\ artifacts' = (dest :> c) @@ artifacts
                     /\ inv_state' = [inv_state EXCEPT
                            ![i] = touch_checked(st, y, m, status, Some(dest),
                                                 Some(digest), clock)]
                ELSE /\ artifacts' = artifacts
                     /\ inv_state' = [inv_state EXCEPT
                            ![i] = touch_checked(st, y, m, status, None, None, clock)]
    /\ inv_pc' = [inv_pc EXCEPT ![i] = "save"]
    /\ UNCHANGED <<USE_S3, state_obj, persisted, manifests, clock, runs, argVars,
                   iterVars, runVars, decideVars, inv_year, last_saver>>

\* Mutant of InvSave: the save keeps the persisted records of the years the
\* saving invocation has no record of.
InvSave_merges(i) ==
    /\ inv_pc[i] = "save"
    /\ persisted' = inv_state[i] @@ persisted
    /\ state_obj' = "json"
    /\ last_saver' = i
    /\ inv_year' = [inv_year EXCEPT ![i] = @ + 1]
    /\ inv_pc' = [inv_pc EXCEPT ![i] = "loop"]
    /\ UNCHANGED <<USE_S3, artifacts, manifests, clock, runs, argVars, iterVars,
                   runVars, decideVars, inv_state>>

\* save_state (state_manager.py:63-95) of invocation i: put_object of the
\* whole dict, without condition on what the location holds.
InvSave(i) ==
    /\ inv_pc[i] = "save"
    /\ persisted' = inv_state[i]
    /\ state_obj' = "json"
    /\ last_saver' = i
    /\ inv_year' = [inv_year EXCEPT ![i] = @ + 1]
    /\ inv_pc' = [inv_pc EXCEPT ![i] = "loop"]
    /\ UNCHANGED <<USE_S3, artifacts, manifests, clock, runs, argVars, iterVars,
                   runVars, decideVars, inv_state>>

\* main.py:236-266 of invocation i: the loop is over and main() returns.
InvReturn(i) ==
    /\ inv_pc[i] = "loop" /\ inv_year[i] > MaxYear
    /\ inv_pc' = [inv_pc EXCEPT ![i] = "done"]
    /\ UNCHANGED <<persistentVars, argVars, iterVars, runVars, decideVars, inv_year,
                   inv_state, last_saver>>

NextConcurrent ==
    \E i \in Invocations :
        \/ \E s \in Years : InvLoad(i, s)
        \/ \E m \in MetaMarkers, outcome \in {"none", "ok", "not_found", "error"},
              c \in Contents : InvIterate(i, m, outcome, c)
        \/ InvSave(i)
        \/ InvReturn(i)

SpecConcurrent == InitConcurrent /\ [][NextConcurrent]_vars

\* ------------------------------------------- decide_download on its own
\* Every (force, last_seen_update, current_meta_update) over DecideMarkers.
InitDecide ==
    /\ USE_S3 = TRUE
    /\ state_obj = "absent"
    /\ persisted = <<>>
    /\ artifacts = <<>>
    /\ manifests = <<>>
    /\ clock = 0
    /\ runs = 0
    /\ pc = "idle"
    /\ start = 1 /\ end = 0 /\ force = FALSE /\ metadata_only = FALSE
    /\ year = 1
    /\ state = <<>>
    /\ run_ts = 0
    /\ entries = <<>>
    /\ total_nuevos = 0
    /\ meta_update_iso = None /\ meta_failed = FALSE
    /\ need_download = FALSE /\ reason = ""
    /\ content = NoContent
    /\ fetch_outcome = "none"
    /\ fetched = {}
    /\ stored = {}
    /\ manifest_path = None
    /\ touched = {} /\ saved = {}
    /\ abort_cause = "none"
    /\ status_code = 0
    /\ d_pc = "call"
    /\ d_force \in BOOLEAN
    /\ d_last \in DecideMarkers
    /\ d_cur \in DecideMarkers
    /\ d_out = <<FALSE, "">>
    /\ d_out2 = <<FALSE, "">>
    /\ inv_pc = [i \in Invocations |-> "off"]
    /\ inv_year = [i \in Invocations |-> 1]
    /\ inv_state = [i \in Invocations |-> <<>>]
    /\ last_saver = "none"

DecideCall ==
    /\ d_pc = "call"
    /\ d_out' = decide_download(d_force, d_last, d_cur)
    /\ d_pc' = "return"
    /\ UNCHANGED <<persistentVars, argVars, iterVars, runVars, d_force, d_last, d_cur,
                   d_out2, invVars>>

\* Between two calls the rest of the program moves on: time passes and the
\* persisted state is rewritten (state_manager.py:63-95, 133).
DecideBetweenCalls ==
    /\ d_pc = "return"
    /\ \E t \in 0..MaxClock : clock' = t
    /\ \E y \in Years, m \in MetaMarkers :
          persisted' = touch_checked(persisted, y, m, "no_changes", None, None, clock')
    /\ d_pc' = "again"
    /\ UNCHANGED <<USE_S3, state_obj, artifacts, manifests, runs, argVars, iterVars,
                   runVars, d_force, d_last, d_cur, d_out, d_out2, invVars>>

\* A second call of decide_download with the arguments of the first.
DecideCallAgain ==
    /\ d_pc = "again"
    /\ d_out2' = decide_download(d_force, d_last, d_cur)
    /\ d_pc' = "return2"
    /\ UNCHANGED <<persistentVars, argVars, iterVars, runVars, d_force, d_last, d_cur,
                   d_out, invVars>>

NextDecide == DecideCall \/ DecideBetweenCalls \/ DecideCallAgain

SpecDecide == InitDecide /\ [][NextDecide]_vars

\* ---------------------------------------------------------------- claims
\* Years of the range whose iteration has completed in the running invocation.
CompletedYears == {y \in Years : start <= y /\ y < year /\ y <= end}

\* The year whose iteration is under way, if any.
InFlightYears == IF pc \in {"fetched", "decided", "downloaded", "save"} THEN {year} ELSE {}

\* The persisted and the in-memory state hold the same record, or both none, for y.
SameRecord(y) ==
    /\ (y \in DOMAIN persisted) <=> (y \in DOMAIN state)
    /\ y \in DOMAIN state => persisted[y] = state[y]

\* C1: at every point of a run, every year of the range whose iteration is
\* over has been passed to touch_checked, and save_state has written its record:
\* the persisted record carries an exit status and a check timestamp and is the
\* in-memory record.
C1_TouchedAndSavedBeforeNextYear ==
    (Running \/ pc = "done") =>
        \A y \in CompletedYears :
            /\ y \in touched /\ y \in saved
            /\ y \in DOMAIN persisted /\ y \in DOMAIN state
            /\ persisted[y] = state[y]
            /\ persisted[y].last_status \in ExitStatuses
            /\ persisted[y].last_checked_ts # None
            /\ Val(persisted[y].last_checked_ts) >= run_ts

\* Two years done in one run, one on the skip path and one on the new-download path.
C1_Witness ==
    /\ pc = "loop" /\ year > end /\ start < end
    /\ persisted[start].last_status = "no_changes"
    /\ persisted[end].last_status = "200_new"

\* C2: at every point of a run the persisted and the in-memory state agree on
\* every year other than the one being processed.
C2_PersistedLagsOnlyInFlightYear ==
    Running => \A y \in Years \ InFlightYears : SameRecord(y)

\* A year is completed and the in-flight year's record is touched but not yet saved.
C2_Witness ==
    /\ pc = "save" /\ CompletedYears # {}
    /\ ~SameRecord(year)
    /\ \E y \in CompletedYears : persisted[y].last_status = "error_download"

\* C3: force=true gives (download, "--force") for every pair of markers.
C3_ForceAlwaysDownloads ==
    (d_pc = "return" /\ d_force) => d_out = <<TRUE, "--force">>

C3_Witness ==
    d_pc = "return" /\ d_force /\ d_last = None /\ d_cur = None /\ d_out[1]

\* C4: force=false and no last-seen marker gives download: with the defensive
\* reason when there is no current marker either, with the first-record reason
\* for every current marker.
C4_NoLastSeenDownloads ==
    (d_pc = "return" /\ ~d_force /\ d_last = None) =>
        /\ d_out[1] = TRUE
        /\ d_cur = None => d_out[2] = "sin_fecha_en_web_y_sin_estado"
        /\ d_cur # None => d_out[2] = "primer_registro_del_anio"

C4_Witness ==
    /\ d_pc = "return" /\ ~d_force /\ d_last = None /\ d_cur = Some("")
    /\ d_out[2] = "primer_registro_del_anio"

\* C5 (as claimed): force=false, last-seen marker A and current marker B, both
\* present and different, give download with a reason that embeds A and B.
C5_ChangedMarkerDownloads ==
    (d_pc = "return" /\ ~d_force /\ d_last # None /\ d_cur # None /\ d_last # d_cur) =>
        /\ d_out[1] = TRUE
        /\ Contains(d_out[2], Val(d_last))
        /\ Contains(d_out[2], Val(d_cur))

\* C6: force=false and a current marker equal to the present last-seen marker
\* give (skip, "sin_cambios").
C6_SameMarkerSkips ==
    (d_pc = "return" /\ ~d_force /\ d_last # None /\ d_cur = d_last) =>
        d_out = <<FALSE, "sin_cambios">>

C6_Witness ==
    /\ d_pc = "return" /\ ~d_force /\ d_last = Some("2021-05-01") /\ d_cur = d_last
    /\ d_out[1] = FALSE

\* C7 (as claimed): skip is returned only when both markers are present and equal.
C7_SkipOnlyOnPresentEqualMarkers ==
    (d_pc = "return" /\ d_out[1] = FALSE) =>
        d_cur # None /\ d_last # None /\ d_cur = d_last

\* C8 (as claimed): a run that got past load_state and has ended by itself has
\* processed every year of its range.
C8_NoYearFailureAbortsRun ==
    (pc \in {"done", "aborted"} /\ abort_cause # "load") =>
        \A y \in Years : (start <= y /\ y <= end) => y \in touched

\* C9 (as claimed): in a non-forced, non-metadata-only run the decision for a
\* year whose last recorded outcome is a failed content fetch is download.
C9_FailedFetchIsRetriedNextRun ==
    (pc = "decided" /\ ~force /\ year \in DOMAIN state
        /\ state[year].last_status \in {"404", "error_download"}) =>
        need_download

\* C10 (as claimed): after a failed metadata fetch the current marker is null
\* and the decision is download, whatever the stored record.
C10_MetadataFailureDownloadsDefensively ==
    (pc = "decided" /\ meta_failed) => (meta_update_iso = None /\ need_download)

\* The fields of the record of year y in a state dict, None without a record.
CheckedTs(st, y) == StateGet(st, y).last_checked_ts
ShaOf(st, y) == StateGet(st, y).last_sha256
PathOf(st, y) == StateGet(st, y).last_file_path

\* A step of the running invocation that reaches the call of save_state.
ReachesSave == pc # "save" /\ pc' = "save"

\* A step in which save_state returns.
SaveReturns == pc = "save" /\ pc' = "loop"

\* C11: with a clock that does not go back, the persisted last_checked_ts of a
\* year never decreases and a persisted record is never without it or removed;
\* every branch that ends an iteration (new download, skip, not found, download
\* error, duplicate, metadata only) writes the current reading into the record.
C11_CheckedTsRewrittenAndMonotone ==
    [][ /\ \A y \in Years :
              /\ y \in DOMAIN persisted => y \in DOMAIN persisted'
              /\ y \in DOMAIN persisted' => CheckedTs(persisted', y) # None
              /\ (y \in DOMAIN persisted /\ CheckedTs(persisted, y) # None) =>
                    Val(CheckedTs(persisted', y)) >= Val(CheckedTs(persisted, y))
        /\ ReachesSave =>
              /\ year' \in DOMAIN state'
              /\ state'[year'].last_status \in ExitStatuses
              /\ CheckedTs(state', year') = Some(clock')
      ]_vars

\* A year checked by an earlier run is skipped by a run that starts later: its
\* persisted timestamp is the later reading.
C11_Witness ==
    /\ runs = 2 /\ run_ts = 1
    /\ \E y \in saved :
          /\ y \in DOMAIN persisted
          /\ persisted[y].last_status = "no_changes"
          /\ CheckedTs(persisted, y) = Some(1)

\* C12: last_sha256 and last_file_path of a year change, in memory and in the
\* persisted state, only in an iteration that ends on the new-download branch;
\* every other branch leaves both as they were, and a value that is set is
\* never set back to None or removed.
C12_ShaAndPathChangeOnlyOnNewDownload ==
    [][ /\ \A y \in Years :
              /\ (ShaOf(persisted', y) # ShaOf(persisted, y)
                    \/ PathOf(persisted', y) # PathOf(persisted, y)) =>
                    /\ y = year /\ SaveReturns
                    /\ state[y].last_status = "200_new"
              /\ ShaOf(persisted, y) # None => ShaOf(persisted', y) # None
              /\ PathOf(persisted, y) # None => PathOf(persisted', y) # None
        /\ (ReachesSave /\ state'[year].last_status # "200_new") =>
              /\ ShaOf(state', year) = ShaOf(state, year)
              /\ PathOf(state', year) = PathOf(state, year)
      ]_vars

\* A year downloaded by an earlier run is found a duplicate: the saved record
\* still carries the digest and the path.
C12_Witness ==
    \E y \in saved :
        /\ y \in DOMAIN persisted
        /\ persisted[y].last_status = "200_same"
        /\ ShaOf(persisted, y) # None /\ PathOf(persisted, y) # None

\* C13: the step that follows a fetched, non-duplicate content, when the store
\* returns, writes one artifact (the content, under the name made of year and
\* run_ts, nothing else touched), appends one manifest entry with the digest and
\* that name, adds one to the counter and leaves a record with the marker
\* fetched in this run, the digest, the name and status 200_new; save_state,
\* called next, persists that record.
C13_NewDownloadStoresAppendsCountsPersists ==
    [][ /\ (pc = "downloaded" /\ ~is_duplicate) => pc' \in {"save", "aborted", "killed"}
        /\ (pc = "downloaded" /\ ~is_duplicate /\ pc' = "save") =>
              LET dest == ArtifactPath(year, run_ts)
                  digest == sha256_bytes(content)
              IN  /\ DOMAIN artifacts' = DOMAIN artifacts \cup {dest}
                  /\ artifacts'[dest] = content
                  /\ \A q \in DOMAIN artifacts \ {dest} : artifacts'[q] = artifacts[q]
                  /\ Len(entries') = Len(entries) + 1
                  /\ SubSeq(entries', 1, Len(entries)) = entries
                  /\ entries'[Len(entries')].year = year
                  /\ entries'[Len(entries')].sha256 = digest
                  /\ entries'[Len(entries')].local_path = dest
                  /\ total_nuevos' = total_nuevos + 1
                  /\ state'[year] =
                        [last_metadata_update |-> meta_update_iso,
                         last_status |-> "200_new",
                         last_checked_ts |-> Some(clock),
                         last_file_path |-> Some(dest),
                         last_sha256 |-> Some(digest)]
        /\ (SaveReturns /\ state[year].last_status = "200_new") =>
              /\ persisted' = state
              /\ UNCHANGED <<artifacts, entries, total_nuevos>>
      ]_vars

\* Both years of a run were new downloads and both records are persisted.
C13_Witness ==
    /\ pc = "loop" /\ total_nuevos = 2 /\ Len(entries) = 2
    /\ \A y \in saved :
          /\ persisted[y].last_status = "200_new"
          /\ persisted[y].last_file_path = Some(ArtifactPath(y, run_ts))
          /\ ArtifactPath(y, run_ts) \in DOMAIN artifacts

\* C14: when the decision is skip, the next step of the run records status
\* no_changes with the current clock reading and goes to save_state without a
\* call of download_csv, without writing an artifact or a manifest and without
\* adding an entry or counting a file; save_state then persists the record.
C14_SkipTouchesNothingButState ==
    [][ /\ (pc = "decided" /\ ~need_download /\ pc' # "killed") =>
              /\ pc' = "save"
              /\ state'[year].last_status = "no_changes"
              /\ CheckedTs(state', year) = Some(clock)
              /\ year \notin fetched' /\ content' = NoContent /\ fetch_outcome' = "none"
              /\ UNCHANGED <<artifacts, manifests, entries, total_nuevos, persisted>>
        /\ (SaveReturns /\ state[year].last_status = "no_changes") =>
              /\ persisted' = state
              /\ year \notin fetched'
              /\ UNCHANGED <<artifacts, manifests, entries, total_nuevos>>
      ]_vars

\* A year downloaded by an earlier run is skipped: the record is touched, the
\* persisted one still shows the download, nothing was fetched.
C14_Witness ==
    /\ pc = "save" /\ year \in DOMAIN state /\ year \in DOMAIN persisted
    /\ state[year].last_status = "no_changes"
    /\ persisted[year].last_status = "200_new"
    /\ content = NoContent /\ year \notin fetched

\* C15: when download_csv raises FileNotFoundError the year gets status 404,
\* when it raises anything else status error_download; in both cases no
\* artifact or manifest is written, no entry is added, and save_state, called
\* next, persists the record and the loop goes on to the following year.
C15_FetchFailuresAreRecorded ==
    [][ /\ (pc = "decided" /\ need_download /\ pc' = "save") =>
              /\ fetch_outcome' \in {"not_found", "error"}
              /\ fetch_outcome' = "not_found" => state'[year].last_status = "404"
              /\ fetch_outcome' = "error" => state'[year].last_status = "error_download"
              /\ year \in fetched'
              /\ UNCHANGED <<artifacts, manifests, entries, total_nuevos>>
        /\ (pc = "save" /\ fetch_outcome \in {"not_found", "error"}) =>
              /\ pc' \in {"loop", "aborted", "killed"}
              /\ pc' = "aborted" => abort_cause' = "save"
              /\ pc' = "loop" =>
                    /\ persisted' = state
                    /\ year' = year + 1
                    /\ UNCHANGED <<artifacts, manifests, entries, total_nuevos, end>>
      ]_vars

\* After a year recorded 404 the run is busy with the year that follows.
C15_Witness ==
    /\ pc = "fetched"
    /\ \E y \in CompletedYears :
          /\ y \in fetched /\ y \in saved
          /\ persisted[y].last_status = "404"
          /\ year = y + 1

\* The content fetched is a duplicate in the sense of the policy in force: its
\* digest is the one recorded for the year (remote), or the digest of an
\* artifact stored for the year (local).
DuplicateOfStored ==
    IF USE_S3
      THEN ShaOf(state, year) = Some(sha256_bytes(content))
      ELSE \E q \in DOMAIN artifacts :
              q[1] = year /\ sha256_bytes(artifacts[q]) = sha256_bytes(content)

\* C16: when the content fetched is such a duplicate, the next step of the run
\* records status 200_same and writes no artifact, adds no manifest entry and
\* does not count a new file.
C16_DuplicateStoresNothing ==
    [][ (pc = "downloaded" /\ DuplicateOfStored /\ pc' # "killed") =>
              /\ pc' = "save"
              /\ state'[year].last_status = "200_same"
              /\ UNCHANGED <<artifacts, manifests, entries, total_nuevos>>
      ]_vars

\* Local policy: the content equals an artifact stored by a run that ended
\* before saving its record, so that no digest is recorded for the year.
C16_Witness ==
    /\ ~USE_S3 /\ pc = "save" /\ year \in DOMAIN state
    /\ state[year].last_status = "200_same"
    /\ ShaOf(state, year) = None
    /\ \E q \in DOMAIN artifacts : q[1] = year /\ artifacts[q] = content

\* C17: in a metadata-only run no step calls decide_download or download_csv,
\* writes an artifact or a manifest, adds an entry or counts a file; every
\* iteration records the marker fetched in this run with status
\* meta_only_checked, save_state persists it, and mw.write() returns None.
C17_MetadataOnlyRunOnlyRecordsMarkers ==
    [][ (metadata_only /\ Running) =>
              /\ pc' \notin {"decided", "downloaded"}
              /\ fetched' = {} /\ content' = NoContent
              /\ entries' = <<>> /\ total_nuevos' = 0
              /\ UNCHANGED <<artifacts, manifests>>
              /\ ReachesSave =>
                    /\ state'[year].last_metadata_update = meta_update_iso
                    /\ state'[year].last_status = "meta_only_checked"
              /\ SaveReturns => persisted' = state
              /\ pc' = "trigger" => manifest_path' = None
      ]_vars

\* A metadata-only run over two years has ended: both records carry the status
\* and a marker replaced the one of an earlier run.
C17_Witness ==
    /\ pc = "done" /\ metadata_only /\ start < end /\ runs = 2
    /\ manifest_path = None
    /\ \A y \in start..end :
          /\ y \in DOMAIN persisted
          /\ persisted[y].last_status = "meta_only_checked"
    /\ persisted[end].last_metadata_update = Some("2021-06-01")
    /\ artifacts # <<>>

\* The step in which mw.write() returns.
WriteReturns == pc = "loop" /\ year > end /\ pc' = "trigger"

\* C18 (as claimed): a run that has processed its last year and gone past
\* mw.write() has serialized its manifest.
C18_SerializedExactlyOnce ==
    pc \in {"trigger", "done"} => manifest_path # None

\* C18 (amended): entries are added one at a time and only by the new-download
\* step of a non-duplicate content; the years of the entries ascend; a manifest
\* is written only by mw.write(), after the last year, not more than once in a
\* run and only for a non-empty entry list, and what it holds is the entry list
\* in its order.
C18_ManifestWrittenAtMostOnceAtEnd ==
    [][ /\ (Running /\ Running' /\ entries' # entries) =>
              /\ pc = "downloaded" /\ ~DuplicateOfStored
              /\ Len(entries') = Len(entries) + 1
              /\ SubSeq(entries', 1, Len(entries)) = entries
              /\ entries'[Len(entries')].year = year
              /\ state'[year].last_status = "200_new"
        /\ \A i, j \in 1..Len(entries') : i < j => entries'[i].year < entries'[j].year
        /\ manifests' # manifests =>
              /\ WriteReturns
              /\ manifest_path = None
              /\ entries # <<>>
        /\ (WriteReturns /\ entries # <<>>) =>
              /\ run_ts \in DOMAIN manifests'
              /\ manifests'[run_ts] = entries
              /\ \A t \in DOMAIN manifests \ {run_ts} :
                    t \in DOMAIN manifests' /\ manifests'[t] = manifests[t]
      ]_vars

\* A run with two new downloads has ended: its manifest holds the two entries,
\* the lower year first.
C18_Witness ==
    /\ pc = "done" /\ Len(entries) = 2
    /\ run_ts \in DOMAIN manifests /\ manifests[run_ts] = entries
    /\ entries[1].year < entries[2].year

\* C19: mw.write() writes nothing and returns None when the entry list is empty,
\* which is the case of a run without new downloads, and writes the manifest of
\* the run and returns its name when the list is not empty.
C19_EmptyRunWritesNoManifest ==
    [][ /\ WriteReturns =>
              /\ (total_nuevos = 0) <=> (entries = <<>>)
              /\ entries = <<>> => (manifests' = manifests /\ manifest_path' = None)
              /\ entries # <<>> =>
                    /\ run_ts \in DOMAIN manifests' /\ manifests'[run_ts] = entries
                    /\ manifest_path' = Some(s3_key_manifest(run_ts))
        /\ manifests' # manifests => total_nuevos > 0
      ]_vars

\* A run that checked years and downloaded nothing has ended after a run that
\* wrote a manifest: write() returned None and the manifests are those of before.
C19_Witness ==
    /\ pc = "done" /\ total_nuevos = 0 /\ touched # {}
    /\ manifest_path = None
    /\ manifests # <<>> /\ run_ts \notin DOMAIN manifests

\* C20 (as claimed): no run is ended by load_state.
C20_LoadFailureNeverAborts ==
    pc = "aborted" => abort_cause # "load"

\* C21 (as claimed): every run that has ended by itself has invoked the
\* downstream trigger, which sets the status code main() returns.
C21_TriggerOncePerRun ==
    pc \in {"done", "aborted"} => status_code \in {200, 500}

\* C22 (as claimed): no step removes a stored artifact or changes its content.
C22_ArtifactsNeverOverwritten ==
    [][ \A q \in DOMAIN artifacts :
            q \in DOMAIN artifacts' /\ artifacts'[q] = artifacts[q] ]_vars

\* The step in which save_state of invocation i returns.
InvSaveReturns(i) == inv_pc[i] = "save" /\ inv_pc'[i] = "loop"

\* C23: with two overlapping invocations, the save of an invocation is always
\* possible, whatever the location holds, and leaves in the location exactly
\* the in-memory state of that invocation, which becomes the last saver; the
\* persisted state changes in no other step, so it is at all times the state
\* the last saver saved.
C23_LastWriterWins ==
    [][ /\ \A i \in Invocations :
              /\ inv_pc[i] = "save" => ENABLED InvSave(i)
              /\ InvSaveReturns(i) =>
                    /\ persisted' = inv_state[i]
                    /\ persisted' = inv_state'[i]
                    /\ last_saver' = i
        /\ persisted' # persisted => \E i \in Invocations : InvSaveReturns(i)
        /\ last_saver' # last_saver => \E i \in Invocations : InvSaveReturns(i)
      ]_vars

\* Invocation A, which processes the second year only, has saved after B saved
\* the first year: the record B saved is no longer in the persisted state.
C23_Witness ==
    /\ last_saver = "A" /\ inv_pc["B"] = "loop" /\ inv_year["B"] = 2
    /\ 1 \in DOMAIN inv_state["B"]
    /\ 1 \notin DOMAIN persisted
    /\ persisted = inv_state["A"]

\* A step in which download_csv is called and ends.
FetchStep == pc = "decided" /\ Running' /\ fetch_outcome' # "none"

\* C24: download_csv is called for a year only when it has not been called for
\* it in this run; the call, whether it returns or raises, takes the iteration
\* away from the point of call, and the loop never returns to a year.
C24_AtMostOneFetchPerYear ==
    [][ /\ FetchStep =>
              /\ year \notin fetched /\ fetch_outcome = "none"
              /\ fetched' = fetched \cup {year}
              /\ pc' \in {"downloaded", "save"}
        /\ (Running /\ Running') =>
              /\ year' >= year
              /\ pc' = "decided" => (year' \notin fetched' /\ fetch_outcome' = "none")
              /\ fetched' # fetched => FetchStep
              /\ fetch_outcome \in {"not_found", "error"} =>
                    (pc' = "loop" /\ year' = year + 1)
      ]_vars

\* The fetch of the first year failed and the run is about to fetch for the second.
C24_Witness ==
    /\ pc = "decided" /\ need_download /\ year = 2
    /\ fetched = {1} /\ 1 \in DOMAIN persisted
    /\ persisted[1].last_status = "error_download"

\* C25 (as claimed): a run that has ended by itself has processed exactly the
\* years of its range.
C25_EveryYearOfRangeProcessed ==
    pc \in {"done", "aborted"} =>
        \A y \in Years : (start <= y /\ y <= end) <=> y \in saved

C27_SkipKeepsStoredMarker ==
    [][ (pc = "decided" /\ ~need_download /\ pc' = "save") =>
            state'[year].last_metadata_update = StateGet(state, year).last_metadata_update
      ]_vars

\* C28: in a forced run the decision is download with reason --force, and a
\* content that is a duplicate under the policy in force still ends the
\* iteration with status 200_same, no artifact written, no entry added and no
\* file counted.
C28_ForceDoesNotBypassDedupe ==
    [][ /\ (force /\ pc = "fetched" /\ pc' = "decided") =>
              (need_download' /\ reason' = "--force")
        /\ (force /\ pc = "downloaded" /\ DuplicateOfStored /\ pc' # "killed") =>
              /\ reason = "--force"
              /\ pc' = "save"
              /\ state'[year].last_status = "200_same"
              /\ UNCHANGED <<artifacts, manifests, entries, total_nuevos>>
      ]_vars

\* Remote policy: a forced run fetched the content recorded for the year, whose
\* marker has not changed either.
C28_Witness ==
    /\ USE_S3 /\ force /\ pc = "save" /\ reason = "--force"
    /\ year \in DOMAIN state /\ year \in DOMAIN persisted
    /\ state[year].last_status = "200_same"
    /\ ShaOf(persisted, year) = Some(sha256_bytes(content))
    /\ meta_update_iso = persisted[year].last_metadata_update
    /\ DOMAIN artifacts = {ArtifactPath(year, 0)}

\* No iteration is between its touch_checked and the return of save_state.
BetweenIterations == pc # "save"

\* C29: when every iteration that began was completed, every persisted record
\* with a last_sha256 has a last_file_path, which names a stored artifact whose
\* digest is that last_sha256.
C29_RecordedArtifactExists ==
    BetweenIterations =>
        \A y \in DOMAIN persisted :
            ShaOf(persisted, y) # None =>
                /\ PathOf(persisted, y) # None
                /\ Val(PathOf(persisted, y)) \in DOMAIN artifacts
                /\ Some(sha256_bytes(artifacts[Val(PathOf(persisted, y))]))
                      = ShaOf(persisted, y)

\* A later run stored a second version of a year: the record names the second
\* artifact, and the first is still there.
C29_Witness ==
    /\ pc = "done" /\ run_ts = 1
    /\ \E y \in saved :
          /\ PathOf(persisted, y) = Some(ArtifactPath(y, 1))
          /\ ArtifactPath(y, 0) \in DOMAIN artifacts
          /\ artifacts[ArtifactPath(y, 0)] # artifacts[ArtifactPath(y, 1)]

\* Two artifacts stored under different names for the same year.
SameYearArtifacts ==
    {pq \in (DOMAIN artifacts) \X (DOMAIN artifacts) :
        pq[1] # pq[2] /\ pq[1][1] = pq[2][1]}

\* C30 (as claimed): under either policy no two artifacts of a year have equal
\* digests.
C30_NoEqualFingerprintsInYear ==
    \A pq \in SameYearArtifacts :
        sha256_bytes(artifacts[pq[1]]) # sha256_bytes(artifacts[pq[2]])

\* C30 (amended): under the local policy no two artifacts of a year have equal
\* digests; under the remote policy the digest of an artifact just stored is
\* not the one that was recorded for the year when the iteration began.
C30_NoEqualFingerprintsLocalOrRecorded ==
    /\ ~USE_S3 =>
          \A pq \in SameYearArtifacts :
              sha256_bytes(artifacts[pq[1]]) # sha256_bytes(artifacts[pq[2]])
    /\ (USE_S3 /\ pc = "save" /\ state[year].last_status = "200_new") =>
          /\ ShaOf(state, year) = Some(sha256_bytes(content))
          /\ ShaOf(persisted, year) # ShaOf(state, year)

\* Local policy: two runs have each stored a version of a year, and the
\* versions differ.
C30_Witness ==
    /\ ~USE_S3 /\ pc = "done"
    /\ \E y \in saved :
          /\ {ArtifactPath(y, 0), ArtifactPath(y, 1)} \subseteq DOMAIN artifacts
          /\ artifacts[ArtifactPath(y, 0)] # artifacts[ArtifactPath(y, 1)]
          /\ ShaOf(persisted, y) = Some(sha256_bytes(artifacts[ArtifactPath(y, 1)]))

\* C31 (as claimed): in a non-forced, non-metadata-only run the decision for a
\* year whose record holds no last_sha256 is download.
C31_YearWithoutArtifactNeverSkipped ==
    (pc = "decided" /\ ~force /\ ~metadata_only /\ ShaOf(state, year) = None) =>
        need_download

\* Years whose iteration in this run ended with the status 200_new.
NewYears == {y \in touched : y \in DOMAIN state /\ state[y].last_status = "200_new"}

C33_StoredArtifactsAreListed ==
    pc \in {"done", "aborted"} =>
        \A y \in saved :
            ( /\ ArtifactPath(y, run_ts) \in stored
              /\ y \in DOMAIN persisted
              /\ persisted[y].last_status = "200_new"
              /\ PathOf(persisted, y) = Some(ArtifactPath(y, run_ts)) ) =>
                /\ run_ts \in DOMAIN manifests
                /\ \E i \in 1..Len(manifests[run_ts]) :
                      /\ manifests[run_ts][i].year = y
                      /\ manifests[run_ts][i].local_path = ArtifactPath(y, run_ts)
                      /\ Some(manifests[run_ts][i].sha256) = ShaOf(persisted, y)

====
